---- MODULE Spec2Model ----
(***************************************************************************)
(* Model of the PDF writer of src/src/lib.rs (struct Pdf, struct Canvas).  *)
(*                                                                         *)
(* The output sink is a sequence of tokens, one per write!() of the        *)
(* source, each carrying the byte length of the text the format string     *)
(* produces and the byte position `at` at which the sink stored it.  The   *)
(* sink keeps its own cursor `pos`; tell() reads it.  Every write and      *)
(* every tell may fail with an I/O error (try! returns early); a failed    *)
(* write may leave a proper prefix of its bytes in the sink.               *)
(***************************************************************************)
EXTENDS Integers, Sequences, FiniteSets, TLC

VARIABLES output, pos, object_offsets, page_objects_ids,
          phase, calls, faults, last, drawFailed, anyFailed

vars == <<output, pos, object_offsets, page_objects_ids,
          phase, calls, faults, last, drawFailed, anyFailed>>

\* ------------------------------------------------------------------ bounds
\* number of render_page calls made on one writer
MaxCalls == 2
\* number of I/O faults the sink injects during one writer's lifetime
MaxFaults == 1

\* ------------------------------------------------------------- constants
ROOT_OBJECT_ID == 1
PAGES_OBJECT_ID == 2

\* ------------------------------------------------------------ formatting
RECURSIVE Digits(_)
\* number of bytes "{}" produces for a non-negative integer
Digits(n) == IF n < 10 THEN 1 ELSE 1 + Digits(n \div 10)

\* number of bytes "{}" produces for a (possibly negative) integer
DisplayLen(n) == IF n < 0 THEN 1 + Digits(0 - n) ELSE Digits(n)

\* number of bytes "{:010}" produces: zero-padded to at least ten characters
Pad10Len(n) == IF DisplayLen(n) < 10 THEN 10 ELSE DisplayLen(n)

RECURSIVE SumDisplayLen(_)
SumDisplayLen(s) == IF s = <<>> THEN 0 ELSE DisplayLen(Head(s)) + SumDisplayLen(Tail(s))

Tok(k, args, len) == [k |-> k, args |-> args, len |-> len]

\* b"%PDF-1.7\n%\xB5\xED\xAE\xFB\n"
T_header == Tok("header", <<>>, 15)
\* "{} 0 obj\n"
T_obj(id) == Tok("obj", <<id>>, Digits(id) + 7)
\* "endobj\n"
T_endobj == Tok("endobj", <<>>, 7)
\* "<<  /Length {} 0 R\n"
T_length_ref(id) == Tok("length_ref", <<id>>, 17 + Digits(id))
\* ">>\n"
T_dict_end == Tok("dict_end", <<>>, 3)
\* "stream\n"
T_stream == Tok("stream", <<>>, 7)
\* "/DeviceRGB cs /DeviceRGB CS\n"
T_colorspace == Tok("colorspace", <<>>, 28)
\* "0.75 0 0 -0.75 0 {} cm\n"
T_cm(height) == Tok("cm", <<height>>, 21 + DisplayLen(height))
\* "endstream\n"
T_endstream == Tok("endstream", <<>>, 10)
\* "{}\n" with the content length
T_length_value(n) == Tok("length_value", <<n>>, DisplayLen(n) + 1)
\* "<<  /Type /Page\n"
T_type_page == Tok("type_page", <<>>, 16)
\* "    /Parent {} 0 R\n"
T_parent(id) == Tok("parent", <<id>>, 17 + Digits(id))
\* "    /Resources << >>\n"
T_resources == Tok("resources", <<>>, 21)
\* "    /MediaBox [ 0 0 {} {} ]\n"
T_mediabox(width, height) ==
    Tok("mediabox", <<width, height>>, 24 + DisplayLen(width) + DisplayLen(height))
\* "    /Contents {} 0 R\n"
T_contents(id) == Tok("contents", <<id>>, 19 + Digits(id))
\* "<<  /Type /Pages\n"
T_type_pages == Tok("type_pages", <<>>, 17)
\* "    /Count {}\n"
T_count(n) == Tok("count", <<n>>, 12 + Digits(n))
\* "    /Kids [ "
T_kids_open == Tok("kids_open", <<>>, 12)
\* "{} 0 R "
T_kid(id) == Tok("kid", <<id>>, Digits(id) + 5)
\* "]\n"
T_kids_close == Tok("kids_close", <<>>, 2)
\* "<<  /Type /Catalog\n"
T_type_catalog == Tok("type_catalog", <<>>, 19)
\* "    /Pages {} 0 R\n"
T_pages_ref(id) == Tok("pages_ref", <<id>>, 16 + Digits(id))
\* "xref\n"
T_xref == Tok("xref", <<>>, 5)
\* "0 {}\n"
T_xref_count(n) == Tok("xref_count", <<n>>, 3 + Digits(n))
\* "0000000000 65535 f \n"
T_xref_free == Tok("xref_free", <<>>, 20)
\* "{:010} 00000 n \n"
T_xref_entry(offset) == Tok("xref_entry", <<offset>>, Pad10Len(offset) + 10)
\* "trailer\n"
T_trailer == Tok("trailer", <<>>, 8)
\* "<<  /Size {}\n"
T_size(n) == Tok("size", <<n>>, 11 + Digits(n))
\* "    /Root {} 0 R\n"
T_root(id) == Tok("root", <<id>>, 15 + Digits(id))
\* "startxref\n"
T_startxref == Tok("startxref", <<>>, 10)
\* "{}\n" with the startxref offset
T_startxref_value(n) == Tok("startxref_value", <<n>>, Digits(n) + 1)
\* "%%EOF\n"
T_eof == Tok("eof", <<>>, 6)
\* "{} {} {} sc {} {} {} {} re f\n"
T_rectangle(a) == Tok("rectangle", a, 15 + SumDisplayLen(a))

\* ------------------------------------------------------------ the sink
\* A fault plan for one call: the I/O operation with index `at` (counted from
\* the start of the call) fails, after storing `part` bytes if it is a write.
NoFault == [on |-> FALSE, at |-> 0, part |-> 0]

Min(a, b) == IF a < b THEN a ELSE b

\* write!(output, ...): write_all of one formatted text, try!-checked
write(p, tok) ==
    IF p.err # "ok" THEN p
    ELSE IF p.fault.on /\ p.ops = p.fault.at
    THEN LET n == Min(p.fault.part, tok.len - 1)
         IN [p EXCEPT !.err = "io", !.site = p.ctx, !.ops = @ + 1,
                      !.output = IF n > 0
                                 THEN Append(@, [k |-> "partial", args |-> <<>>,
                                                 len |-> n, at |-> p.pos])
                                 ELSE @,
                      !.pos = @ + n]
    ELSE [p EXCEPT !.ops = @ + 1,
                   !.output = Append(@, [k |-> tok.k, args |-> tok.args,
                                         len |-> tok.len, at |-> p.pos]),
                   !.pos = @ + tok.len]

\* self.output.seek(SeekFrom::Current(0)): the value read is p.pos
tell(p) ==
    IF p.err # "ok" THEN p
    ELSE IF p.fault.on /\ p.ops = p.fault.at
    THEN [p EXCEPT !.err = "io", !.site = p.ctx, !.ops = @ + 1]
    ELSE [p EXCEPT !.ops = @ + 1]

\* assert!(cond)
assert(p, cond, what) ==
    IF p.err # "ok" THEN p
    ELSE IF cond THEN p
    ELSE [p EXCEPT !.err = "panic", !.site = what]

\* ----------------------------------------------------------- the canvas
\* Canvas::rectangle
rectangle(p, a) == write(p, T_rectangle(a))

RECURSIVE draw_rects(_, _)
draw_rects(p, rects) ==
    IF rects = <<>> THEN p
    ELSE draw_rects(rectangle(p, Head(rects)), Tail(rects))

\* what the callback returns once its rectangles are drawn: Ok, or an error
\* of its own
callback_result(p, draw) ==
    IF p.err = "ok" /\ draw.fails
    THEN [p EXCEPT !.err = "io", !.site = "draw"]
    ELSE p

enter_callback(p) == IF p.err = "ok" THEN [p EXCEPT !.ctx = "draw"] ELSE p
leave_callback(p) == IF p.err = "ok" THEN [p EXCEPT !.ctx = "pdf"] ELSE p

\* the call render_contents(&mut Canvas { output: pdf.output }) of the caller's
\* drawing callback: it issues its rectangles, propagating a failed write
render_contents(p, draw) ==
    leave_callback(callback_result(draw_rects(enter_callback(p), draw.rects), draw))

\* Ok(value) as the last expression of a closure
ok_ret(p, value) == IF p.err = "ok" THEN [p EXCEPT !.ret = value] ELSE p

\* ------------------------------------------------------- object bodies
\* content-stream closure, `let end` to the end: end is the cursor of p
contents_end(p, start, contents_object_id) ==
    ok_ret(write(tell(p), T_endstream), <<contents_object_id, p.pos - start>>)

\* contents_stream with `start` read after the preamble instead of before it
contents_stream_late_start(p, contents_object_id, height, draw) ==
    LET p4 == tell(p)
        p5 == write(p4, T_colorspace)
        p6 == write(p5, T_cm(height))
    IN  contents_end(render_contents(p6, draw), p.pos + T_colorspace.len, contents_object_id)

\* a Result that is dropped instead of try!-checked
unchecked(p) == IF p.err = "io" THEN [p EXCEPT !.err = "ok", !.ctx = "pdf"] ELSE p

\* contents_stream with the callback's Result dropped
contents_stream_unchecked_callback(p, contents_object_id, height, draw) ==
    LET p4 == tell(p)
        p5 == write(p4, T_colorspace)
        p6 == write(p5, T_cm(height))
    IN  contents_end(unchecked(render_contents(p6, draw)), p.pos, contents_object_id)

\* content-stream closure, `let start` to the callback: start is the cursor of p
contents_stream(p, contents_object_id, height, draw) ==
    LET p4 == tell(p)
        p5 == write(p4, T_colorspace)
        p6 == write(p5, T_cm(height))
    IN  contents_end(render_contents(p6, draw), p.pos, contents_object_id)

\* render_page's first closure: the content-stream object
contents_closure(p, contents_object_id, height, draw) ==
    LET p1 == write(p, T_length_ref(contents_object_id + 1))
        p2 == write(p1, T_dict_end)
        p3 == write(p2, T_stream)
    IN  contents_stream(p3, contents_object_id, height, draw)

\* render_page's second closure: the length object
length_closure(p, length_object_id, contents_object_id, content_length) ==
    write(assert(p, length_object_id = contents_object_id + 1, "assert_length_id"),
          T_length_value(content_length))

\* page_closure with /Contents naming the object after the content stream
page_closure_wrong_contents(p, page_object_id, width, height, contents_object_id) ==
    LET p1 == write(p, T_type_page)
        p2 == write(p1, T_parent(PAGES_OBJECT_ID))
        p3 == write(p2, T_resources)
        p4 == write(p3, T_mediabox(width, height))
        p5 == write(p4, T_contents(contents_object_id + 1))
        p6 == write(p5, T_dict_end)
    IN  ok_ret(p6, <<page_object_id, 0>>)

\* render_page's third closure: the page object
page_closure(p, page_object_id, width, height, contents_object_id) ==
    LET p1 == write(p, T_type_page)
        p2 == write(p1, T_parent(PAGES_OBJECT_ID))
        p3 == write(p2, T_resources)
        p4 == write(p3, T_mediabox(width, height))
        p5 == write(p4, T_contents(contents_object_id))
        p6 == write(p5, T_dict_end)
    IN  ok_ret(p6, <<page_object_id, 0>>)

RECURSIVE write_kids(_, _)
\* finish's loop over &pdf.page_objects_ids
write_kids(p, ids) ==
    IF ids = <<>> THEN p
    ELSE write_kids(write(p, T_kid(Head(ids))), Tail(ids))

\* finish's first closure: the page tree
pages_closure(p) ==
    LET p1 == write(p, T_type_pages)
        p2 == write(p1, T_count(Len(p.page_objects_ids)))
        p3 == write(p2, T_kids_open)
        p4 == write_kids(p3, p.page_objects_ids)
        p5 == write(p4, T_kids_close)
    IN  write(p5, T_dict_end)

\* finish's second closure: the catalog
catalog_closure(p) ==
    LET p1 == write(p, T_type_catalog)
        p2 == write(p1, T_pages_ref(PAGES_OBJECT_ID))
    IN  write(p2, T_dict_end)

\* the call write_content(id, pdf) / write_content(pdf) of a closure, the
\* closure given by its kind and the values it captured
write_content(p, id, body) ==
    CASE body.kind = "contents" -> contents_closure(p, id, body.height, body.draw)
      [] body.kind = "length" ->
            length_closure(p, id, body.contents_object_id, body.content_length)
      [] body.kind = "page" ->
            page_closure(p, id, body.width, body.height, body.contents_object_id)
      [] body.kind = "pages" -> pages_closure(p)
      [] body.kind = "catalog" -> catalog_closure(p)

\* --------------------------------------------------------- object framing
\* write_object with the offset read after the header instead of before it
write_object_late_offset(p, id, body) ==
    LET p1 == tell(p)
        p2 == write(p1, T_obj(id))
        p3 == write_content(p2, id, body)
        p4 == write(p3, T_endobj)
    IN  [p |-> p4, offset |-> p.pos + T_obj(id).len]

\* Pdf::write_object: the state after it and the offset it returns
write_object(p, id, body) ==
    LET p1 == tell(p)
        p2 == write(p1, T_obj(id))
        p3 == write_content(p2, id, body)
        p4 == write(p3, T_endobj)
    IN  [p |-> p4, offset |-> p.pos]

\* push_offset that records the offset of a failed write too
push_offset_always(r) == [r.p EXCEPT !.object_offsets = Append(@, r.offset)]

\* self.object_offsets.push(offset); Ok(result), r what write_object returned
push_offset(r) ==
    IF r.p.err # "ok" THEN r.p
    ELSE [r.p EXCEPT !.object_offsets = Append(@, r.offset)]

\* write_new_object taking the index of the last slot for the new id
write_new_object_last_slot(p, body) ==
    IF p.err # "ok" THEN p
    ELSE push_offset(write_object(p, Len(p.object_offsets) - 1, body))

\* Pdf::write_new_object
write_new_object(p, body) ==
    IF p.err # "ok" THEN p
    ELSE push_offset(write_object(p, Len(p.object_offsets), body))

\* store_offset that leaves the reserved slot as it was
store_offset_dropped(r, id) == r.p

\* self.object_offsets[id] = offset; Ok(result) (ids index the table from 0)
store_offset(r, id) ==
    IF r.p.err # "ok" THEN r.p
    ELSE [r.p EXCEPT !.object_offsets[id + 1] = r.offset]

\* Pdf::write_object_with_id
write_object_with_id(p, id, body) ==
    IF p.err # "ok" THEN p
    ELSE store_offset(
            write_object(assert(p, p.object_offsets[id + 1] = -1, "assert_reserved"),
                         id, body),
            id)

\* ------------------------------------------------------------- operations
\* self.page_objects_ids.push(page_object_id); Ok(())
push_page(p) ==
    IF p.err # "ok" THEN p
    ELSE [p EXCEPT !.page_objects_ids = Append(@, p.ret[1])]

\* render_page_rest that writes no length object
render_page_rest_no_length_object(p, width, height) ==
    push_page(write_new_object(p, [kind |-> "page", width |-> width, height |-> height,
                                   contents_object_id |-> p.ret[1]]))

\* render_page after its first write_new_object, whose result is p.ret
render_page_rest(p, width, height) ==
    LET contents_object_id == p.ret[1]
        content_length == p.ret[2]
        p2 == write_new_object(p, [kind |-> "length",
                                   contents_object_id |-> contents_object_id,
                                   content_length |-> content_length])
        p3 == write_new_object(p2, [kind |-> "page", width |-> width, height |-> height,
                                    contents_object_id |-> p.ret[1]])
    IN  push_page(p3)

\* Pdf::render_page
render_page(p, width, height, draw) ==
    render_page_rest(
        write_new_object(p, [kind |-> "contents", height |-> height, draw |-> draw]),
        width, height)

RECURSIVE write_xref_entries(_, _)
\* finish's loop over &self.object_offsets[1..]
write_xref_entries(p, offsets) ==
    IF offsets = <<>> THEN p
    ELSE write_xref_entries(
            write(assert(p, Head(offsets) >= 0, "assert_offset"),
                  T_xref_entry(Head(offsets))),
            Tail(offsets))

\* finish_xref with startxref read after the xref keyword instead of before it
finish_xref_late_startxref(p) ==
    LET p3 == tell(p)
        p4 == write(p3, T_xref)
        p5 == write(p4, T_xref_count(Len(p.object_offsets)))
        p6 == write(p5, T_xref_free)
        p7 == write_xref_entries(p6, Tail(p.object_offsets))
        p8 == write(p7, T_trailer)
        p9 == write(p8, T_size(Len(p.object_offsets)))
        p10 == write(p9, T_root(ROOT_OBJECT_ID))
        p11 == write(p10, T_dict_end)
        p12 == write(p11, T_startxref)
        p13 == write(p12, T_startxref_value(p.pos + T_xref.len))
    IN  write(p13, T_eof)

\* finish_xref with /Size counting the in-use entries only
finish_xref_size_in_use(p) ==
    LET p3 == tell(p)
        p4 == write(p3, T_xref)
        p5 == write(p4, T_xref_count(Len(p.object_offsets)))
        p6 == write(p5, T_xref_free)
        p7 == write_xref_entries(p6, Tail(p.object_offsets))
        p8 == write(p7, T_trailer)
        p9 == write(p8, T_size(Len(p.object_offsets) - 1))
        p10 == write(p9, T_root(ROOT_OBJECT_ID))
        p11 == write(p10, T_dict_end)
        p12 == write(p11, T_startxref)
        p13 == write(p12, T_startxref_value(p.pos))
    IN  write(p13, T_eof)

\* finish from `let startxref` on: startxref is the cursor of p
\* finish_xref with the line of id 0 read from slot 0 like every other line
finish_xref_reads_slot0(p) ==
    LET p3 == tell(p)
        p4 == write(p3, T_xref)
        p5 == write(p4, T_xref_count(Len(p.object_offsets)))
        p7 == write_xref_entries(p5, p.object_offsets)
        p8 == write(p7, T_trailer)
        p9 == write(p8, T_size(Len(p.object_offsets)))
        p10 == write(p9, T_root(ROOT_OBJECT_ID))
        p11 == write(p10, T_dict_end)
        p12 == write(p11, T_startxref)
        p13 == write(p12, T_startxref_value(p.pos))
    IN  write(p13, T_eof)

finish_xref(p) ==
    LET p3 == tell(p)
        p4 == write(p3, T_xref)
        p5 == write(p4, T_xref_count(Len(p.object_offsets)))
        p6 == write(p5, T_xref_free)
        p7 == write_xref_entries(p6, Tail(p.object_offsets))
        p8 == write(p7, T_trailer)
        p9 == write(p8, T_size(Len(p.object_offsets)))
        p10 == write(p9, T_root(ROOT_OBJECT_ID))
        p11 == write(p10, T_dict_end)
        p12 == write(p11, T_startxref)
        p13 == write(p12, T_startxref_value(p.pos))
    IN  write(p13, T_eof)

\* finish writing the catalog before the page tree
finish_catalog_first(p) ==
    finish_xref(
        write_object_with_id(
            write_object_with_id(p, ROOT_OBJECT_ID, [kind |-> "catalog"]),
            PAGES_OBJECT_ID, [kind |-> "pages"]))

\* Pdf::finish
finish(p) ==
    finish_xref(
        write_object_with_id(
            write_object_with_id(p, PAGES_OBJECT_ID, [kind |-> "pages"]),
            ROOT_OBJECT_ID, [kind |-> "catalog"]))

\* ------------------------------------------------------------------ inputs
\* page size (width, height) passed to render_page
Dims == { <<200, 100>> }

\* Canvas::rectangle arguments (r, g, b, x, y, width, height)
RedSquare == <<255, 0, 0, 10, 10, 50, 50>>
BlackDot == <<0, 0, 0, 1, 1, 1, 1>>

\* drawing callbacks: the rectangles they draw, and whether they then return an
\* error of their own
Draws == { [rects |-> <<>>, fails |-> FALSE],
           [rects |-> <<RedSquare>>, fails |-> FALSE],
           [rects |-> <<BlackDot>>, fails |-> TRUE] }

\* bytes a failed write leaves in the sink (fewer than the whole text)
PartialBytes == {0, 1}

\* the writer as the handlers see it, at the start of a call
Self(fault) ==
    [output |-> output, pos |-> pos, object_offsets |-> object_offsets,
     page_objects_ids |-> page_objects_ids,
     err |-> "ok", site |-> "none", ctx |-> "pdf", ops |-> 0, fault |-> fault,
     ret |-> <<0, 0>>]

\* the fault plans of a call that performs nops I/O operations when none fails
FaultPlans(nops) ==
    {NoFault} \cup
    IF faults < MaxFaults
    THEN {[on |-> TRUE, at |-> i, part |-> k] : i \in 0..(nops - 1), k \in PartialBytes}
    ELSE {}

\* ------------------------------------------------------------------- state
\* Pdf::new, after it returned Ok
Init ==
    /\ output = << [k |-> T_header.k, args |-> T_header.args, len |-> T_header.len, at |-> 0] >>
    /\ pos = T_header.len
    /\ object_offsets = <<-1, -1, -1>>
    /\ page_objects_ids = <<>>
    /\ phase = "open"
    /\ calls = 0
    /\ faults = 0
    /\ last = [op |-> "new", res |-> "ok", site |-> "none", out0 |-> 0,
               offs0 |-> <<>>, pages0 |-> <<>>, pos0 |-> 0]
    /\ drawFailed = FALSE
    /\ anyFailed = FALSE

\* what a call leaves behind: q is the writer when the call returns
Return(op, q) ==
    /\ output' = q.output
    /\ pos' = q.pos
    /\ object_offsets' = q.object_offsets
    /\ page_objects_ids' = q.page_objects_ids
    /\ faults' = IF q.fault.on THEN faults + 1 ELSE faults
    /\ last' = [op |-> op, res |-> q.err, site |-> q.site, out0 |-> Len(output),
                offs0 |-> object_offsets, pages0 |-> page_objects_ids, pos0 |-> pos]
    /\ drawFailed' = (drawFailed \/ (q.err = "io" /\ q.site = "draw"))
    /\ anyFailed' = (anyFailed \/ q.err # "ok")

\* a call of pdf.render_page(width, height, draw)
RenderPage ==
    /\ phase = "open"
    /\ calls < MaxCalls
    /\ \E d \in Dims, draw \in Draws :
         \E f \in FaultPlans(render_page(Self(NoFault), d[1], d[2], draw).ops) :
            \E q \in {render_page(Self(f), d[1], d[2], draw)} :
                /\ f.on => q.ops > f.at
                /\ Return("render_page", q)
                /\ calls' = calls + 1
                /\ phase' = IF q.err = "panic" THEN "aborted" ELSE "open"

\* Finish for a finish(&mut self), which leaves the writer usable
Finish_keeps_writer ==
    /\ phase = "open"
    /\ \E f \in FaultPlans(finish(Self(NoFault)).ops) :
          \E q \in {finish(Self(f))} :
              /\ f.on => q.ops > f.at
              /\ Return("finish", q)
              /\ calls' = calls
              /\ phase' = "open"

\* a call of pdf.finish(), which consumes the writer
Finish ==
    /\ phase = "open"
    /\ \E f \in FaultPlans(finish(Self(NoFault)).ops) :
          \E q \in {finish(Self(f))} :
              /\ f.on => q.ops > f.at
              /\ Return("finish", q)
              /\ calls' = calls
              /\ phase' = IF q.err = "panic" THEN "aborted" ELSE "finished"

Next == RenderPage \/ Finish

Spec == Init /\ [][Next]_vars

\* ------------------------------------------------------ reading the output
Idx == 1..Len(output)

\* the indices of the tokens of kind k, in output order
RECURSIVE IndicesFrom(_, _)
IndicesFrom(i, k) ==
    IF i > Len(output) THEN <<>>
    ELSE IF output[i].k = k THEN <<i>> \o IndicesFrom(i + 1, k)
    ELSE IndicesFrom(i + 1, k)

Indices(k) == IndicesFrom(1, k)

\* the number of tokens of kind k
Count(k) == Cardinality({i \in Idx : output[i].k = k})

\* i is an object header "<id> 0 obj"
IsHeader(i) == output[i].k = "obj"
HeaderId(i) == output[i].args[1]

\* the kind of the first token of the body of the object whose header is at h
BodyKind(h) == IF h < Len(output) THEN output[h + 1].k ELSE "nothing"

\* the index of the first token after i whose kind is in ks, 0 if there is none
RECURSIVE NextOf(_, _)
NextOf(i, ks) ==
    IF i >= Len(output) THEN 0
    ELSE IF output[i + 1].k \in ks THEN i + 1
    ELSE NextOf(i + 1, ks)

\* the index of the last token before i whose kind is in ks, 0 if there is none
RECURSIVE PrevOf(_, _)
PrevOf(i, ks) ==
    IF i <= 1 THEN 0
    ELSE IF output[i - 1].k \in ks THEN i - 1
    ELSE PrevOf(i - 1, ks)

\* the object whose header is at h has been written completely: its body is
\* followed by its "endobj", with no torn text and no other header before it
Complete(h) ==
    LET e == NextOf(h, {"obj", "endobj", "partial"})
    IN  e # 0 /\ output[e].k = "endobj"

\* the header index of the object the token at i lies in (i itself if a header)
HeaderOf(i) == IF IsHeader(i) THEN i ELSE PrevOf(i, {"obj"})

\* finish returned Ok(())
FinishedOk == phase = "finished" /\ last.op = "finish" /\ last.res = "ok"

\* ------------------------------------------------------------------ properties

\* C1: once finish has returned Ok, the cross-reference table holds one in-use
\* line for each object id i in [1, N), N the length of the offset table, and the
\* offset on the line of id i is the byte position at which a header "<i> 0 obj"
\* begins in the output, the header of a completely written object.
C1_XrefOffsetsAreHeaderPositions ==
    FinishedOk =>
        LET entries == Indices("xref_entry")
            N == Len(object_offsets)
        IN  /\ Len(entries) = N - 1
            /\ \A i \in 1..(N - 1) :
                 \E h \in Idx :
                    /\ IsHeader(h)
                    /\ HeaderId(h) = i
                    /\ output[h].at = output[entries[i]].args[1]
                    /\ Complete(h)

\* C1 witness: finish returned Ok after a render_page that a failed write cut
\* short inside its content object, leaving a torn text in the output, and a
\* render_page that succeeded
C1_Witness ==
    /\ FinishedOk
    /\ Len(page_objects_ids) = 1
    /\ Count("partial") = 1
    /\ Count("xref_entry") = 5

\* C2: the value in every length object is the number of bytes the sink holds
\* between the end of "stream\n" and the start of "endstream" of the content
\* object written just before it, and the length object's id is that object's
\* id plus one.
C2_LengthIsStreamByteCount ==
    \A j \in Idx :
        output[j].k = "length_value" =>
            LET lh == HeaderOf(j)
                ch == PrevOf(lh, {"obj"})
                s == NextOf(ch, {"stream", "endstream", "obj"})
                e == NextOf(s, {"stream", "endstream", "obj"})
            IN  /\ lh # 0 /\ ch # 0 /\ s # 0 /\ e # 0
                /\ output[s].k = "stream"
                /\ output[e].k = "endstream"
                /\ NextOf(e, {"stream", "endstream", "obj"}) = lh
                /\ HeaderId(lh) = HeaderId(ch) + 1
                /\ output[j].args[1] = output[e].at - (output[s].at + output[s].len)

\* C2 witness: two length objects, one for a callback that wrote nothing (the
\* length is that of the fixed preamble) and one for a callback that drew
C2_Witness ==
    \E i \in Idx, j \in Idx :
        /\ output[i].k = "length_value"
        /\ output[j].k = "length_value"
        /\ output[i].args[1] = T_colorspace.len + T_cm(200).len
        /\ output[j].args[1] > output[i].args[1]

\* C5: once finish has returned Ok, the number after "startxref" is the byte
\* position at which the "xref" keyword begins.
C5_StartxrefIsXrefPosition ==
    FinishedOk =>
        /\ Count("xref") = 1
        /\ Count("startxref_value") = 1
        /\ \A i \in Idx :
              output[i].k = "xref" =>
                  \A j \in Idx :
                     output[j].k = "startxref_value" => output[j].args[1] = output[i].at

\* C5 witness: finish returned Ok with two pages in the file
C5_Witness == FinishedOk /\ Len(page_objects_ids) = 2 /\ Count("startxref_value") = 1

\* the ids the headers at the given indices carry
RECURSIVE HeaderIds(_)
HeaderIds(is) ==
    IF is = <<>> THEN <<>> ELSE <<HeaderId(HeaderOf(Head(is)))>> \o HeaderIds(Tail(is))

\* the first arguments of the tokens at the given indices
RECURSIVE Args(_)
Args(is) == IF is = <<>> THEN <<>> ELSE <<output[Head(is)].args[1]>> \o Args(Tail(is))

\* C3: once finish has returned Ok, /Count is the number of render_page calls
\* made on the writer and /Kids lists the ids of the page objects in the order
\* the calls wrote them.
C3_CountIsNumberOfCalls ==
    FinishedOk =>
        /\ Args(Indices("count")) = <<calls>>
        /\ Args(Indices("kid")) = HeaderIds(Indices("type_page"))

\* C4: every completely written content-stream object C refers to C+1 for its
\* /Length, and every object written under the id C+1 is the first object
\* written after C and is a length object (whole, or cut short by a failed
\* write); the check length_object_id == contents_object_id + 1 never fails.
C4_LengthObjectFollowsContents ==
    /\ last.site # "assert_length_id"
    /\ \A i \in Idx :
          (output[i].k = "length_ref" /\ Complete(HeaderOf(i))) =>
             /\ output[i].args[1] = HeaderId(HeaderOf(i)) + 1
             /\ \A h \in Idx :
                   (IsHeader(h) /\ HeaderId(h) = output[i].args[1]) =>
                      /\ i < h
                      /\ \A m \in (i + 1)..(h - 1) : ~IsHeader(m)
                      /\ BodyKind(h) \in {"length_value", "partial", "nothing"}

\* the tokens the last call appended to the output
NewTokens == (last.out0 + 1)..Len(output)

\* C6: when the drawing callback of a render_page call returns an error, the
\* call returns that error, and after the callback it writes no "endstream", no
\* "endobj", no length object and no page object, and leaves the page id list
\* and the offset table as they were.
C6_CallbackErrorStopsThePage ==
    (last.op = "render_page" /\ last.site = "draw") =>
        /\ last.res = "io"
        /\ page_objects_ids = last.pages0
        /\ object_offsets = last.offs0
        /\ \A i \in NewTokens :
              output[i].k \in {"obj", "length_ref", "dict_end", "stream", "colorspace",
                               "cm", "rectangle", "partial"}
        /\ Cardinality({i \in NewTokens : IsHeader(i)}) = 1

\* C6 witness: the second render_page of a writer failed in its callback, after
\* the callback had drawn a rectangle
C6_Witness ==
    /\ last.op = "render_page"
    /\ last.site = "draw"
    /\ calls = 2
    /\ Len(last.pages0) = 1
    /\ \E i \in NewTokens : output[i].k = "rectangle"

\* C7: after a render_page call failed because its callback returned an error,
\* finish does not return Ok.
C7_FailedPageIsNotFinalizable == drawFailed => ~FinishedOk

\* C8: no two object headers carry the same id, and the ids of the objects
\* started by write_new_object increase strictly in output order.
C8_ObjectIdsUnique ==
    \A i \in Idx, j \in Idx :
        (IsHeader(i) /\ IsHeader(j) /\ i < j) =>
            /\ HeaderId(i) # HeaderId(j)
            /\ (HeaderId(i) > PAGES_OBJECT_ID /\ HeaderId(j) > PAGES_OBJECT_ID)
                  => HeaderId(i) < HeaderId(j)

\* C9: when every call succeeded, the file finish leaves has one catalog, one
\* page tree, one page object for each render_page call, each page with /Parent
\* naming the page tree and /Contents naming a content-stream object of its own,
\* one cross-reference table and one trailer.
C9_OneOfEachInACleanRun ==
    (FinishedOk /\ ~anyFailed) =>
        /\ Count("type_catalog") = 1
        /\ Count("type_pages") = 1
        /\ Count("type_page") = calls
        /\ Count("stream") = calls
        /\ Count("xref") = 1
        /\ Count("trailer") = 1
        /\ Count("parent") = calls
        /\ Count("contents") = calls
        /\ \A i \in Idx :
              output[i].k = "parent" =>
                 /\ BodyKind(HeaderOf(i)) = "type_page"
                 /\ \E t \in Idx : /\ output[t].k = "type_pages"
                                   /\ HeaderId(HeaderOf(t)) = output[i].args[1]
        /\ \A i \in Idx :
              output[i].k = "contents" =>
                 /\ BodyKind(HeaderOf(i)) = "type_page"
                 /\ \A j \in Idx :
                       (output[j].k = "contents" /\ j # i)
                          => /\ output[j].args[1] # output[i].args[1]
                             /\ HeaderOf(j) # HeaderOf(i)
                 /\ \E h \in Idx : /\ IsHeader(h)
                                   /\ HeaderId(h) = output[i].args[1]
                                   /\ BodyKind(h) = "length_ref"
                                   /\ Complete(h)
                                   /\ h < HeaderOf(i)
                                   /\ \A g \in Idx : (IsHeader(g) /\ HeaderId(g) = HeaderId(h))
                                                        => g = h

\* C9 witness: two render_page calls and finish, none of which failed
C9_Witness == FinishedOk /\ ~anyFailed /\ calls = 2 /\ Count("type_page") = 2

\* C10: the check offset >= 0 of finish never fails: once finish has come to the
\* cross-reference lines, every slot of ids 1..N-1 holds a non-negative offset;
\* with no page added, finish returns Ok with /Count 0 and an empty /Kids.
C10_NoSentinelAtXref ==
    /\ last.site # "assert_offset"
    /\ (last.op = "finish" /\ Count("xref_free") > 0) =>
          \A i \in 2..Len(object_offsets) : object_offsets[i] >= 0
    /\ (FinishedOk /\ page_objects_ids = <<>>) =>
          /\ Args(Indices("count")) = <<0>>
          /\ Count("kid") = 0
          /\ \A i \in Idx : output[i].k = "kids_open" => output[i + 1].k = "kids_close"

\* C10 witness: finish returned Ok on a writer no render_page was called on
C10_Witness ==
    /\ FinishedOk
    /\ calls = 0
    /\ Count("xref_entry") = 2
    /\ \A i \in 2..Len(object_offsets) : object_offsets[i] >= 0

\* the indices of the headers that carry the id
HeadersOf(id) == {h \in Idx : IsHeader(h) /\ HeaderId(h) = id}

\* the table's slot of an object id (ids count from 0)
Slot(id) == object_offsets[id + 1]

\* C11: the reserved ids 1 and 2 are written at most once, and by finish only:
\* while the writer is open their slots hold -1 and no header carries them, so
\* the check of write_object_with_id never fails; once finish has returned Ok
\* each has exactly one header.
C11_ReservedIdsWrittenOnceByFinish ==
    /\ last.site # "assert_reserved"
    /\ \A id \in {ROOT_OBJECT_ID, PAGES_OBJECT_ID} :
          \A hs \in {HeadersOf(id)} :
             /\ Cardinality(hs) <= 1
             /\ phase = "open" => (Slot(id) = -1 /\ hs = {})
             /\ last.op = "finish" => last.offs0[id + 1] = -1
             /\ last.op = "render_page" =>
                   (Slot(id) = last.offs0[id + 1] /\ \A h \in hs : h \notin NewTokens)
             /\ FinishedOk => (Cardinality(hs) = 1 /\ Slot(id) >= 0)

\* C11 witness: finish returned Ok after two pages; it found both reserved
\* slots at -1 and filled them
C11_Witness ==
    /\ FinishedOk
    /\ Len(page_objects_ids) = 2
    /\ last.offs0[ROOT_OBJECT_ID + 1] = -1
    /\ last.offs0[PAGES_OBJECT_ID + 1] = -1
    /\ Slot(ROOT_OBJECT_ID) > Slot(PAGES_OBJECT_ID)
    /\ Slot(PAGES_OBJECT_ID) > 0

\* C12: once finish has returned Ok, the count in "0 <N>" and /Size are both
\* the length N of the offset table, and the free line for id 0 is followed by
\* exactly N-1 in-use lines, the line at place i holding the table's slot of
\* id i.
C12_XrefCountAndSizeAreTableLength ==
    FinishedOk =>
        /\ Count("xref_count") = 1
        /\ Count("size") = 1
        /\ Count("xref_entry") = Len(object_offsets) - 1
        /\ \A i \in Idx :
              /\ output[i].k = "size" => output[i].args[1] = Len(object_offsets)
              /\ output[i].k = "xref_count" =>
                    /\ output[i].args[1] = Len(object_offsets)
                    /\ output[i + 1].k = "xref_free"
                    /\ \A n \in 1..(Len(object_offsets) - 1) :
                          /\ output[i + 1 + n].k = "xref_entry"
                          /\ output[i + 1 + n].args[1] = Slot(n)
                    /\ output[i + 1 + Len(object_offsets)].k = "trailer"

\* C12 witness: finish returned Ok with a page in the file and a failed
\* render_page before it
C12_Witness ==
    /\ FinishedOk
    /\ anyFailed
    /\ Len(page_objects_ids) = 1
    /\ Args(Indices("size")) = <<Len(object_offsets)>>

\* the run consists of one render_page and finish, and both returned Ok
OnePageCleanRun == FinishedOk /\ ~anyFailed /\ calls = 1

\* C13 as stated: after one page, the cross-reference section lists 4 objects,
\* ids 0 to 3.
C13_OnePageListsFourObjects ==
    OnePageCleanRun =>
        /\ Args(Indices("xref_count")) = <<4>>
        /\ Count("xref_free") + Count("xref_entry") = 4

\* C13 amended: after one page, the cross-reference section lists 6 objects,
\* ids 0 to 5: the free id 0, the catalog, the page tree, and the page's
\* content stream, length and page objects.
C13_OnePageListsSixObjects ==
    OnePageCleanRun =>
        /\ Args(Indices("xref_count")) = <<6>>
        /\ Count("xref_free") + Count("xref_entry") = 6
        /\ \A id \in 1..5 : Cardinality(HeadersOf(id)) = 1
        /\ \A h \in Idx : IsHeader(h) => HeaderId(h) \in 1..5

\* C13 witness: one render_page and finish, both Ok
C13_Witness == OnePageCleanRun /\ Count("xref_entry") = 5 /\ Len(page_objects_ids) = 1

IsMark(t) == t.k \in {"obj", "endobj", "partial"}

\* the object headers, the "endobj"s and the torn texts of the output, in order
Marks == SelectSeq(output, IsMark)

\* the text is an object header
IsObj(t) == t.k = "obj"

\* the object headers of the output, in order
Headers == SelectSeq(output, IsObj)

NewComplete == {h \in NewTokens : IsHeader(h) /\ Complete(h)}

\* C15: write_new_object appends -1 for the new id before the object is
\* written, so a render_page that failed leaves the table longer by its
\* completely written objects and one more slot, which holds -1.
C15_SentinelAppendedFirst ==
    (last.op = "render_page" /\ last.res = "io") =>
        /\ Len(object_offsets) = Len(last.offs0) + Cardinality(NewComplete) + 1
        /\ object_offsets[Len(object_offsets)] = -1

\* the kinds of the texts only finish writes
FinishKinds ==
    {"type_pages", "count", "kids_open", "kid", "kids_close", "type_catalog", "pages_ref",
     "xref", "xref_count", "xref_free", "xref_entry", "trailer", "size", "root",
     "startxref", "startxref_value", "eof"}

\* C16: finish consumes the writer: once it has been called, whether it
\* returned Ok or an error, no call is possible any more; so the output holds at
\* most one "xref" and one "trailer", no object header follows the trailer, and
\* while the writer is open nothing of what finish writes is in the output.
C16_FinishConsumesTheWriter ==
    /\ last.op = "finish" => phase # "open"
    /\ phase # "open" => ~ENABLED Next
    /\ phase = "open" => \A i \in Idx : output[i].k \notin FinishKinds
    /\ phase # "open" =>
          /\ Count("xref") <= 1
          /\ Count("trailer") <= 1
          /\ \A t \in Idx : output[t].k = "trailer" =>
                                \A h \in (t + 1)..Len(output) : output[h].k # "obj"

\* C16 witness: finish failed after it had written the cross-reference table,
\* and the writer is gone
C16_Witness ==
    /\ phase = "finished"
    /\ last.op = "finish"
    /\ last.res = "io"
    /\ Count("xref") = 1
    /\ Count("trailer") = 1
    /\ Count("eof") = 0

\* the kinds of the texts that hold an indirect reference "id 0 R"
ReferenceKinds == {"length_ref", "parent", "contents", "kid", "pages_ref", "root"}

\* C17: id 0 is never given to an object: slot 0 of the offset table always
\* holds -1, no header "0 0 obj" and no reference "0 0 R" is written, and finish
\* writes the fixed free line right after the count line and takes the n-th
\* line after it from slot n, n >= 1, so it is never stopped by the -1 of slot 0.
C17_IdZeroNeverAssigned ==
    /\ object_offsets[1] = -1
    /\ \A i \in Idx : output[i].k \in ReferenceKinds \cup {"obj"} => output[i].args[1] # 0
    /\ last.op = "finish" =>
          \A i \in NewTokens :
             /\ (output[i].k = "xref_count" /\ i < Len(output)) =>
                   /\ output[i + 1].k \in {"xref_free", "partial"}
                   /\ \A j \in (i + 2)..Len(output) :
                         output[j].k = "xref_entry" => output[j].args[1] = Slot(j - i - 1)
             /\ output[i].k = "xref_entry" => output[i - 1].k \in {"xref_free", "xref_entry"}
    /\ last.op # "finish" => Count("xref_entry") = 0
    /\ (last.op = "finish" /\ last.res # "io" /\ Count("xref_count") = 1) =>
          /\ Count("xref_free") = 1
          /\ Count("xref_entry") = Len(object_offsets) - 1

\* C17 witness: finish returned Ok after one page; the table has the free line
\* and four lines of objects
C17_Witness ==
    /\ FinishedOk
    /\ object_offsets[1] = -1
    /\ Count("xref_free") = 1
    /\ Count("xref_entry") = 4

\* the first text of the body of the object a reference of kind k is meant for
ExpectedBody(k) ==
    CASE k = "length_ref" -> "length_value"
      [] k = "contents" -> "length_ref"
      [] k = "kid" -> "type_page"
      [] k \in {"parent", "pages_ref"} -> "type_pages"
      [] k = "root" -> "type_catalog"

\* the reference at i names an id whose line of the cross-reference table points
\* at a completely written object of the kind the reference is meant for
Resolves(i) ==
    /\ output[i].args[1] < Len(object_offsets)
    /\ \E h \in HeadersOf(output[i].args[1]) :
          /\ output[h].at = Slot(output[i].args[1])
          /\ Complete(h)
          /\ BodyKind(h) = ExpectedBody(output[i].k)

\* C18: in every file finish returned Ok for, whatever calls failed before,
\* every reference written (here: those of the trailer and of completely written
\* objects) resolves to a completely written object of the expected kind.
C18_ReferencesResolve ==
    FinishedOk =>
        \A i \in Idx :
            (/\ output[i].k \in ReferenceKinds
             /\ (output[i].k = "root" \/ Complete(HeaderOf(i)))) => Resolves(i)

\* C19: a render_page call that failed with an I/O error leaves the page id
\* list as it was and every old slot of the offset table as it was, and the table
\* has grown by one slot for each object the call wrote completely (none, one or
\* two), the slots holding, in order, the byte positions of those objects' headers.
C19_FailedPageKeepsOldSlots ==
    (last.op = "render_page" /\ last.res = "io") =>
        /\ page_objects_ids = last.pages0
        /\ Len(object_offsets) >= Len(last.offs0)
        /\ SubSeq(object_offsets, 1, Len(last.offs0)) = last.offs0
        /\ Cardinality(NewComplete) \in 0..2
        /\ Len(object_offsets) = Len(last.offs0) + Cardinality(NewComplete)
        /\ \A h \in NewComplete :
              object_offsets[Len(last.offs0) + Cardinality({g \in NewComplete : g <= h})]
                  = output[h].at

\* C19 witness: a second render_page failed in its page object, after the content
\* stream and the length object were written; the first page is still listed
C19_Witness ==
    /\ last.op = "render_page"
    /\ last.res = "io"
    /\ Cardinality(NewComplete) = 2
    /\ Len(last.pages0) = 1
    /\ Len(object_offsets) = Len(last.offs0) + 2

====
